---- MODULE Spec2Model ----
(***************************************************************************)
(* Greedy_Decoder and Beam_Search_Decoder of FFNN/Decoder.py.              *)
(*                                                                         *)
(* One decoder instance (greedy or beam search) is constructed; decode is  *)
(* invoked on it repeatedly with the same input sequence and the same     *)
(* deterministic scoring model.  The scoring model is external: the score  *)
(* vector it returns for a context window is chosen freely the first time *)
(* the window is queried and is remembered in `model`, so that the same    *)
(* window always gets the same scores.  Scores are integers (scaled log    *)
(* probabilities); a length-normalised score is the exact fraction         *)
(* num/den.                                                                *)
(***************************************************************************)
EXTENDS Integers, Sequences, FiniteSets, TLC

\* Bounds of the model.
MaxC == 1
MaxL == 4
MaxK == 2
MaxCalls == 2

\* The vocabulary index: token id t is the position of its word.
idx2word == <<"<s>", "</s>", "cat">>
Vocab == DOMAIN idx2word
word2idx(w) == CHOOSE t \in Vocab : idx2word[t] = w
StartTag == word2idx("<s>")
EndTag == word2idx("</s>")

\* The values one entry of a score vector can take.
Scores == {-1, 0}
ScoreVectors == [Vocab -> Scores]

VARIABLES
    decoder,             \* "greedy" or "beam": the class of the instance
    C,                   \* self.C
    length,              \* self.length
    beam_size,           \* self.beam_size
    original_beam_size,  \* self.original_beam_size
    model,               \* the scoring model: context window -> score vector
    pc,                  \* position inside decode
    calls,               \* decode invocations started so far
    forwards,            \* model.forward calls made by the current invocation
    summary,             \* greedy: the buffer; beam: the selected buffer
    i,                   \* loop variable of the decoding loop
    hypotheses,          \* the live beam
    final,               \* the finalized list
    n_h,                 \* the collapsed candidate pool of the current step
    j,                   \* index of the hypothesis expanded next
    scored,              \* hypotheses after length normalisation
    returned             \* the values returned by the finished invocations

vars == <<decoder, C, length, beam_size, original_beam_size, model, pc, calls,
          forwards, summary, i, hypotheses, final, n_h, j, scored, returned>>

config == <<decoder, C, length, original_beam_size>>

----------------------------------------------------------------------------
\* Helpers

Min(a, b) == IF a < b THEN a ELSE b

\* Python s[a:b] for 0 <= a, on a 0-based list.
Slice(s, a, b) == SubSeq(s, a + 1, Min(b, Len(s)))

\* Python s[a:]
SliceFrom(s, a) == SubSeq(s, a + 1, Len(s))

\* Python s[:k]
Take(s, k) == SubSeq(s, 1, Min(k, Len(s)))

\* Python `tok in buf`
Contains(buf, tok) == \E x \in DOMAIN buf : buf[x] = tok

\* [tok] * n
Repeat(tok, n) == [x \in 1..n |-> tok]

\* [self.idx2word[w] for w in buf]
Words(buf) == [x \in DOMAIN buf |-> idx2word[buf[x]]]

\* The end of both decoding loops: range(..., self.length + self.C - 1)
LoopEndOff(len, c) == len + c + 1
LoopEnd(len, c) == len + c - 1

\* torch.topk(scores, k): the k best token ids, best first (equal scores:
\* lower id first), and their scores.
Beats(sv, a, b) == sv[a] > sv[b] \/ (sv[a] = sv[b] /\ a < b)
TopIndices(sv, k) ==
    [r \in 1..k |->
        CHOOSE t \in Vocab : Cardinality({u \in Vocab : Beats(sv, u, t)}) = r - 1]
TopProbs(sv, k) == LET index == TopIndices(sv, k) IN [r \in 1..k |-> sv[index[r]]]

\* model.forward(sequence, context, True): the score vectors the model can
\* return for a context window.
Forward(ctx) == IF ctx \in DOMAIN model THEN {model[ctx]} ELSE ScoreVectors
Remember(ctx, sv) ==
    [c \in DOMAIN model \cup {ctx} |-> IF c = ctx THEN sv ELSE model[c]]

----------------------------------------------------------------------------
Init ==
    /\ decoder \in {"greedy", "beam"}
    /\ C \in 1..MaxC
    /\ length \in 1..MaxL
    /\ original_beam_size \in 1..MaxK
    /\ (decoder = "greedy" => original_beam_size = 1)
    /\ beam_size = original_beam_size
    /\ model = << >>
    /\ pc = "idle"
    /\ calls = 0
    /\ forwards = 0
    /\ summary = << >>
    /\ i = 0
    /\ hypotheses = << >>
    /\ final = << >>
    /\ n_h = << >>
    /\ j = 0
    /\ scored = << >>
    /\ returned = << >>

----------------------------------------------------------------------------
\* Greedy_Decoder

\* decode, up to the loop
GreedyDecode ==
    /\ decoder = "greedy"
    /\ pc \in {"idle", "done"}
    /\ calls < MaxCalls
    /\ calls' = calls + 1
    /\ forwards' = 0
    /\ summary' = Repeat(StartTag, C)
    /\ i' = C
    /\ pc' = "greedy_loop"
    /\ UNCHANGED <<config, beam_size, model, hypotheses, final, n_h, j, scored,
                   returned>>

\* the break test of the greedy loop
GreedyDoneOff(buf) == Contains(Slice(buf, 0, C), EndTag)
GreedyDone(buf) == Contains(buf, EndTag)

\* find_next_word
find_next_word(buf, pos, sv) == Append(buf, TopIndices(sv, 2)[1])

\* one iteration of the loop
GreedyStep ==
    /\ pc = "greedy_loop"
    /\ i < LoopEnd(length, C)
    /\ \E sv \in Forward(Slice(summary, i - C, i)) :
          /\ model' = Remember(Slice(summary, i - C, i), sv)
          /\ summary' = find_next_word(summary, i, sv)
    /\ forwards' = forwards + 1
    /\ IF GreedyDone(summary')
          THEN pc' = "greedy_return" /\ i' = i
          ELSE pc' = "greedy_loop" /\ i' = i + 1
    /\ UNCHANGED <<config, beam_size, calls, hypotheses, final, n_h, j, scored,
                   returned>>

\* the range is exhausted
GreedyExit ==
    /\ pc = "greedy_loop"
    /\ i >= LoopEnd(length, C)
    /\ pc' = "greedy_return"
    /\ UNCHANGED <<config, beam_size, model, calls, forwards, summary, i,
                   hypotheses, final, n_h, j, scored, returned>>

\* indices to words, return
GreedyReturn ==
    /\ pc = "greedy_return"
    /\ returned' = Append(returned, Words(SliceFrom(summary, C - 1)))
    /\ pc' = "done"
    /\ UNCHANGED <<config, beam_size, model, calls, forwards, summary, i,
                   hypotheses, final, n_h, j, scored>>

----------------------------------------------------------------------------
\* Beam_Search_Decoder

Hyp(buf, prob) == [buf |-> buf, prob |-> prob]

\* predict, then the hypotheses of the seed step
SeedHypotheses(prefix, sv, k) ==
    [r \in 1..k |-> Hyp(Append(prefix, TopIndices(sv, k)[r]), TopProbs(sv, k)[r])]

\* decode, up to the expansion loop.  torch.topk raises when asked for more
\* entries than the vocabulary has.
BeamSeed ==
    /\ decoder = "beam"
    /\ pc \in {"idle", "done"}
    /\ calls < MaxCalls
    /\ calls' = calls + 1
    /\ forwards' = 1
    /\ summary' = Repeat(StartTag, C)
    /\ \E sv \in Forward(Slice(summary', 0, C)) :
          /\ model' = Remember(Slice(summary', 0, C), sv)
          /\ IF beam_size <= Cardinality(Vocab)
                THEN /\ hypotheses' = SeedHypotheses(summary', sv, beam_size)
                     /\ pc' = "beam_loop"
                ELSE /\ hypotheses' = << >>
                     /\ pc' = "failed"
    /\ final' = << >>
    /\ n_h' = << >>
    /\ scored' = << >>
    /\ i' = C + 1
    /\ j' = 0
    /\ UNCHANGED <<config, beam_size, returned>>

\* the head of the expansion loop: enter an iteration or leave the loop
BeamLoop ==
    /\ pc = "beam_loop"
    /\ IF i < LoopEnd(length, C)
          THEN pc' = "beam_expand" /\ n_h' = << >> /\ j' = 0
          ELSE pc' = "beam_merge" /\ UNCHANGED <<n_h, j>>
    /\ UNCHANGED <<config, beam_size, model, calls, forwards, summary, i,
                   hypotheses, final, scored, returned>>

\* n_h is a dict: its entries in insertion order, one per key
Keys(d) == {d[x].key : x \in DOMAIN d}
Lookup(d, key) == d[CHOOSE x \in DOMAIN d : d[x].key = key].val
DictPutOff(d, key, val) == Append(d, [key |-> key, val |-> val])
DictPut(d, key, val) ==
    IF key \in Keys(d)
       THEN [x \in DOMAIN d |-> IF d[x].key = key THEN [key |-> key, val |-> val]
                                                  ELSE d[x]]
       ELSE Append(d, [key |-> key, val |-> val])
Values(d) == [x \in DOMAIN d |-> d[x].val]

\* the test that lets a candidate take the place of the one kept for its token
BetterOff(new_prob, old_prob) == new_prob >= old_prob
Better(new_prob, old_prob) == new_prob > old_prob

\* the loop over k: the continuations k..beam_size of one parent, given the
\* (probs, indices) that predict returned for it
RECURSIVE Collapse(_, _, _, _, _)
Collapse(d, parent, probs, indices, k) ==
    IF k > Len(indices) THEN d
    ELSE LET token == indices[k]
             new_prob == parent.prob + probs[k]
             d2 == IF token \notin Keys(d) \/ Better(new_prob, Lookup(d, token).prob)
                      THEN DictPut(d, token, Hyp(Append(parent.buf, token), new_prob))
                      ELSE d
         IN Collapse(d2, parent, probs, indices, k + 1)

\* the body of the loop over j: expand one live hypothesis
BeamExpand ==
    /\ pc = "beam_expand"
    /\ j < Len(hypotheses)
    /\ LET parent == hypotheses[j + 1]
           y_c == Slice(parent.buf, i - C, i)
       IN \E sv \in Forward(y_c) :
             /\ model' = Remember(y_c, sv)
             /\ n_h' = Collapse(n_h, parent, TopProbs(sv, beam_size),
                                 TopIndices(sv, beam_size), 1)
    /\ forwards' = forwards + 1
    /\ j' = j + 1
    /\ UNCHANGED <<config, beam_size, calls, summary, i, hypotheses, final, scored,
                   pc, returned>>

\* sorted(hypotheses, key=score, reverse=True): a stable sort, so of two
\* hypotheses with equal scores the one earlier in the list comes first
Precedes(h, x, y) == h[x].prob > h[y].prob \/ (h[x].prob = h[y].prob /\ x < y)
SortedByProb(h) ==
    [r \in DOMAIN h |->
        h[CHOOSE x \in DOMAIN h :
              Cardinality({y \in DOMAIN h : Precedes(h, y, x)}) = r - 1]]

\* select_top(hypotheses, K)
select_top(h, k) == Take(SortedByProb(h), k)

\* the early removal of hypotheses that have an end tag
FinishedOff(h) == SelectSeq(h, LAMBDA x : FALSE)
Finished(h) == SelectSeq(h, LAMBDA x : Contains(x.buf, EndTag))
UnfinishedOff(h) == h
Unfinished(h) == SelectSeq(h, LAMBDA x : ~Contains(x.buf, EndTag))

\* the rest of an iteration: select the top K, move the finished hypotheses
\* to final, test beam_size
BeamPrune ==
    /\ pc = "beam_expand"
    /\ j = Len(hypotheses)
    /\ LET top == select_top(Values(n_h), beam_size)
       IN /\ final' = final \o Finished(top)
          /\ hypotheses' = Unfinished(top)
    /\ IF beam_size = 0
          THEN pc' = "beam_merge" /\ i' = i
          ELSE pc' = "beam_loop" /\ i' = i + 1
    /\ UNCHANGED <<config, beam_size, model, calls, forwards, summary, n_h, j,
                   scored, returned>>

\* hypotheses.extend(final)
BeamMerge ==
    /\ pc = "beam_merge"
    /\ hypotheses' = hypotheses \o final
    /\ pc' = "beam_select"
    /\ UNCHANGED <<config, beam_size, model, calls, forwards, summary, i, final,
                   n_h, j, scored, returned>>

\* prob / lp with lp = (5 + len(hypothesis)) / (5 + 1), as the fraction num/den
NormalizeOff(x) == [buf |-> x.buf, num |-> x.prob * (5 + Len(x.buf)), den |-> 5 + 1]
Normalize(x) == [buf |-> x.buf, num |-> x.prob * (5 + 1), den |-> 5 + Len(x.buf)]

\* a/b > c/d for positive b, d
Greater(a, b) == a.num * b.den > b.num * a.den
PrecedesFinal(s, x, y) == Greater(s[x], s[y]) \/ (~Greater(s[y], s[x]) /\ x < y)
SortedByScore(s) ==
    [r \in DOMAIN s |->
        s[CHOOSE x \in DOMAIN s :
              Cardinality({y \in DOMAIN s : PrecedesFinal(s, y, x)}) = r - 1]]

\* the value self.beam_size gets before decode returns
RestoredOff(original, h) == Len(h)
Restored(original, h) == original

\* select_top(hypotheses, 1, True)[0], indices to words, reset of beam_size.
\* Indexing an empty selection raises.
BeamReturn ==
    /\ pc = "beam_select"
    /\ scored' = [x \in DOMAIN hypotheses |-> Normalize(hypotheses[x])]
    /\ IF hypotheses # << >>
          THEN /\ summary' = Take(SortedByScore(scored'), 1)[1].buf
               /\ returned' = Append(returned, Words(SliceFrom(summary', C - 1)))
               /\ beam_size' = Restored(original_beam_size, hypotheses)
               /\ pc' = "done"
          ELSE /\ pc' = "failed"
               /\ UNCHANGED <<summary, returned, beam_size>>
    /\ UNCHANGED <<config, model, calls, forwards, i, hypotheses, final, n_h, j>>

----------------------------------------------------------------------------
Next ==
    \/ GreedyDecode
    \/ GreedyStep
    \/ GreedyExit
    \/ GreedyReturn
    \/ BeamSeed
    \/ BeamLoop
    \/ BeamExpand
    \/ BeamPrune
    \/ BeamMerge
    \/ BeamReturn

Spec == Init /\ [][Next]_vars

----------------------------------------------------------------------------
\* Properties

Last(s) == s[Len(s)]
AtStepEnd == pc \in {"beam_loop", "beam_expand", "beam_merge"}

\* C1: after the seed step and after every expansion iteration the live beam
\* holds at most the configured K hypotheses, and no two candidates of the
\* collapsed pool n_h have the same token id as key or as last token.
C1_BeamInvariant ==
    decoder = "beam" =>
       /\ (pc = "beam_loop" => Len(hypotheses) <= original_beam_size)
       /\ \A x, y \in DOMAIN n_h :
             x # y => /\ n_h[x].key # n_h[y].key
                      /\ Last(n_h[x].val.buf) # Last(n_h[y].val.buf)

\* an expansion iteration has filled the beam from a pool of several candidates
C1_Witness ==
    /\ decoder = "beam"
    /\ pc = "beam_loop"
    /\ i > C + 1
    /\ Len(n_h) > original_beam_size
    /\ Len(hypotheses) + Len(final) >= original_beam_size

\* C2: the word sequence the greedy decoder returns has at most L words, and
\* the buffer the beam search decoder selects has at most L + C token ids.
C2_LengthBound ==
    /\ (decoder = "greedy" /\ pc = "done" => Len(Last(returned)) <= length)
    /\ (decoder = "beam" /\ pc = "done" => Len(summary) <= length + C)

\* beam search has run the whole expansion loop and selected a hypothesis that
\* survived every iteration
C2_Witness ==
    /\ decoder = "beam"
    /\ pc = "done"
    /\ length > 2
    /\ Len(summary) = length + C - 1

\* C3: once an expansion iteration has left the live beam empty, no further
\* expansion iteration is entered.
C3_EmptyBeamStopsLoop ==
    [][(pc = "beam_loop" /\ hypotheses = << >>) => pc' # "beam_expand"]_vars

SameRawShorter(x, y) ==
    /\ decoder = "beam"
    /\ pc = "done"
    /\ hypotheses[x].prob = hypotheses[y].prob
    /\ Len(hypotheses[x].buf) < Len(hypotheses[y].buf)

\* C5 (as stated): of two hypotheses of the final selection with the same raw
\* score, the shorter one gets a higher or equal normalized score, whatever
\* the raw score.
C5_ShorterScoresHigher ==
    \A x, y \in DOMAIN scored :
        SameRawShorter(x, y) => ~Greater(scored[y], scored[x])

\* C5 (amended): of two hypotheses of the final selection with the same raw
\* score, the shorter one gets a higher or equal normalized score when the raw
\* score is not negative, and a strictly lower one when it is negative.
C5_ShorterScoresBySign ==
    \A x, y \in DOMAIN scored :
        SameRawShorter(x, y) =>
           IF hypotheses[x].prob >= 0
              THEN ~Greater(scored[y], scored[x])
              ELSE Greater(scored[y], scored[x])

\* the final selection ranks two hypotheses of different lengths whose raw
\* scores are the same negative number
C5_Witness ==
    \E x, y \in DOMAIN scored :
        SameRawShorter(x, y) /\ hypotheses[x].prob < 0

\* every score vector the model has returned ranks the end tag highest
RanksEndHighest ==
    \A ctx \in DOMAIN model : TopIndices(model[ctx], 1)[1] = EndTag

\* the greedy decoder generated exactly one token, the end tag
OneTokenThenEnd ==
    /\ forwards = 1
    /\ summary = Append(Repeat(StartTag, C), EndTag)

\* C6 (as stated): with a model that always ranks the end tag highest, greedy
\* decoding makes exactly one model call and ends with the padding followed
\* by the end tag, for every positive C and L.
C6_EndFirst ==
    (decoder = "greedy" /\ pc = "done" /\ RanksEndHighest) => OneTokenThenEnd

\* C6 (amended): the same, for every positive C and every L >= 2.
C6_EndFirstFromTwo ==
    (decoder = "greedy" /\ pc = "done" /\ RanksEndHighest /\ length >= 2)
        => OneTokenThenEnd

\* greedy decoding stopped at the end tag although its loop had more
\* iterations left
C6_Witness ==
    /\ decoder = "greedy"
    /\ pc = "done"
    /\ RanksEndHighest
    /\ length >= 3
    /\ OneTokenThenEnd

\* C7: all decode invocations on one Beam_Search_Decoder instance return the
\* same word sequence, and between invocations beam_size is the configured
\* value.
C7_Deterministic ==
    decoder = "beam" =>
       /\ \A a, b \in DOMAIN returned : returned[a] = returned[b]
       /\ (pc \in {"idle", "done"} => beam_size = original_beam_size)

\* a second invocation has returned, after a decode that finalized a
\* hypothesis early and ended with a merged list longer than K
C7_Witness ==
    /\ decoder = "beam"
    /\ pc = "done"
    /\ Len(returned) >= 2
    /\ final # << >>
    /\ Len(hypotheses) # original_beam_size

\* the continuation k of the live hypothesis p in the current iteration
ContextOf(p) == Slice(hypotheses[p].buf, i - C, i)
TokenOf(p, k) == TopIndices(model[ContextOf(p)], beam_size)[k]
CombinedOf(p, k) == hypotheses[p].prob + model[ContextOf(p)][TokenOf(p, k)]

\* the continuations proposed by the parents expanded so far
Proposals ==
    {[p |-> p, token |-> TokenOf(p, k), sum |-> CombinedOf(p, k)] :
        p \in 1..j, k \in 1..beam_size}

\* C8: for every token id proposed by a parent expanded so far, the pool n_h
\* keeps (parent buffer + [token], parent score + continuation score) of the
\* parent with the highest combined score, the earliest such parent on ties.
C8_BestPerToken ==
    (decoder = "beam" /\ pc = "beam_expand") =>
       LET props == Proposals
       IN /\ \A c \in props : c.token \in Keys(n_h)
          /\ \A e \in DOMAIN n_h :
                \E c \in props :
                   /\ c.token = n_h[e].key
                   /\ n_h[e].val = Hyp(Append(hypotheses[c.p].buf, c.token), c.sum)
                   /\ \A d \in props :
                         d.token = c.token =>
                            \/ d.sum < c.sum
                            \/ (d.sum = c.sum /\ d.p >= c.p)

\* two parents proposed the same token and the later parent's candidate,
\* having the higher combined score, replaced the earlier one's
C8_Witness ==
    /\ decoder = "beam"
    /\ pc = "beam_expand"
    /\ j = 2
    /\ \E k, m \in 1..beam_size :
          /\ TokenOf(1, k) = TokenOf(2, m)
          /\ CombinedOf(2, m) > CombinedOf(1, k)
          /\ Lookup(n_h, TokenOf(2, m)).prob = CombinedOf(2, m)

\* C9: no hypothesis that contains the end tag is in the live beam when an
\* expansion iteration expands it, and every hypothesis that contains the end
\* tag has it as its last token.
C9_NoEndTagExpanded ==
    /\ (pc = "beam_expand" =>
           \A x \in DOMAIN hypotheses : ~Contains(hypotheses[x].buf, EndTag))
    /\ (decoder = "beam" =>
           \A x \in DOMAIN (hypotheses \o final) :
               Contains((hypotheses \o final)[x].buf, EndTag)
                   => Last((hypotheses \o final)[x].buf) = EndTag)

\* C10: after the seed step and after every expansion iteration the live beam
\* and the finalized list are not both empty, the final selection works on a
\* non-empty list and decode does not fail.
C10_NeverEmpty ==
    decoder = "beam" =>
       /\ (pc \in {"beam_loop", "beam_merge"} => Len(hypotheses) + Len(final) > 0)
       /\ (pc = "beam_select" => hypotheses # << >>)
       /\ pc # "failed"

\* an expansion iteration moved the whole beam to the finalized list
C10_Witness ==
    /\ decoder = "beam"
    /\ pc = "beam_loop"
    /\ hypotheses = << >>
    /\ final # << >>

====
